---- MODULE Spec2Model ----
(***************************************************************************)
(* State-machine model of remote-input (src/src/main.rs): the device       *)
(* listener loop, the event bus shared through Arc<Mutex<Bus<..>>>, the    *)
(* accept loop of main, the worker pool and handle_connection.             *)
(***************************************************************************)
EXTENDS Integers, Sequences, FiniteSets, TLC

(***************************************************************************)
(* Bounds of the model.                                                    *)
(***************************************************************************)
\* number of TCP connections the accept loop receives
MaxConns == 2
\* number of input events the device delivers in total
MaxEvents == 2
\* largest batch one fetch_events call returns
MaxBatch == 2
\* queue depth of the bus: Bus::new(100) in main, scaled down
BusCapacity == 1
\* longest credential a client sends before the terminator or EOF
MaxCredLen == 2
\* longest configured api_key
MaxKeyLen == 2

(***************************************************************************)
(* Program constants.                                                      *)
(***************************************************************************)
\* [u8; 64] event_buffer
BufferSize == 64
\* EventType::KEY and EventType::LED
EV_KEY == 1
EV_LED == 17
\* config.hardware.escape.code() and config.hardware.pause.code(): here
\* KEY_SCROLLLOCK and KEY_PAUSE; any two distinct key codes behave alike
escape_code == 70
pause_code == 119

Conns == 1..MaxConns

(***************************************************************************)
(* Input events (evdev::InputEvent) the device can deliver: an LED event,  *)
(* releases, a press and a repeat of the two control keys, a press of      *)
(* KEY_A (30) and a relative-axis event (EV_REL, 2) whose code happens to  *)
(* equal escape_code.  The timestamp is the capture instant in seconds;    *)
(* the device clock advances with every event, nanoseconds are 0.          *)
(* The encoding of the relative-axis event is two bytes longer than that   *)
(* of a key event.                                                         *)
(***************************************************************************)
EventKinds ==
    { [type |-> EV_LED, code |-> 0, value |-> 1],
      [type |-> EV_KEY, code |-> escape_code, value |-> 0],
      [type |-> EV_KEY, code |-> escape_code, value |-> 1],
      [type |-> EV_KEY, code |-> pause_code, value |-> 0],
      [type |-> EV_KEY, code |-> pause_code, value |-> 2],
      [type |-> EV_KEY, code |-> 30, value |-> 1],
      [type |-> 2, code |-> escape_code, value |-> -10000] }

InputEvent(k, t) ==
    [timestamp |-> t, type |-> k.type, code |-> k.code, value |-> k.value]

(***************************************************************************)
(* Frame codec: InputEventWrapper::from, postcard serialisation and COBS   *)
(* framing (postcard::to_slice_cobs).                                      *)
(***************************************************************************)
InputEventWrapper(e) ==
    [secs |-> e.timestamp, nanos |-> 0,
     event_type |-> e.type, code |-> e.code, value |-> e.value]

RECURSIVE Varint(_)
Varint(n) ==
    IF n < 128 THEN <<n>>
    ELSE <<(n % 128) + 128>> \o Varint(n \div 128)

ZigZag(v) == IF v >= 0 THEN 2 * v ELSE (-2 * v) - 1

Postcard(w) ==
    Varint(w.secs) \o Varint(w.nanos) \o Varint(w.event_type)
        \o Varint(w.code) \o Varint(ZigZag(w.value))

FirstZero(d) ==
    IF \E i \in 1..Len(d) : d[i] = 0
    THEN CHOOSE i \in 1..Len(d) : d[i] = 0 /\ \A j \in 1..(i - 1) : d[j] # 0
    ELSE 0

RECURSIVE Cobs(_)
Cobs(d) ==
    LET z == FirstZero(d)
    IN  IF z = 0 THEN <<Len(d) + 1>> \o d
        ELSE <<z>> \o SubSeq(d, 1, z - 1) \o Cobs(SubSeq(d, z + 1, Len(d)))

\* the bytes to_slice_cobs produces: the COBS body and the 0x00 sentinel
ToCobs(e) == Cobs(Postcard(InputEventWrapper(e))) \o <<0>>

\* every event the device delivers within the bounds, and its encoding,
\* computed once
DeviceEvents == {InputEvent(k, t) : k \in EventKinds, t \in 1..MaxEvents}
Encodings == [e \in DeviceEvents |-> ToCobs(e)]

Encoding(e) == IF e \in DeviceEvents THEN Encodings[e] ELSE ToCobs(e)

\* to_slice_cobs(&wrapper, &mut event_buffer): Err when the encoding does
\* not fit, else the encoding overwrites the front of the buffer
ToSliceCobs(e, buf) ==
    LET enc == Encoding(e)
    IN  IF Len(enc) > BufferSize
        THEN [ok |-> FALSE, buf |-> buf, len |-> 0]
        ELSE [ok |-> TRUE,
              buf |-> enc \o SubSeq(buf, Len(enc) + 1, BufferSize),
              len |-> Len(enc)]

\* variant: the whole buffer is written
FrameWhole(f) == f.buf
\* &event.0[0..event.1]
FrameSlice(f) == SubSeq(f.buf, 1, f.len)

(***************************************************************************)
(* State.                                                                  *)
(***************************************************************************)
VARIABLES
    api_key,        \* config.server.api_key, as bytes
    lpc,            \* position of device_listener in its loop
    grabbed,        \* device_listener: grabbed
    grab_target,    \* device_listener: grab_target
    pause,          \* device_listener: pause
    pause_target,   \* device_listener: pause_target
    event_buffer,   \* device_listener: event_buffer
    batch,          \* events of the current fetch not yet processed
    clock,          \* number of events the device has delivered
    lock,           \* holder of the Mutex around the bus
    rx,             \* bus: state of the BusReader created for a connection
    queue,          \* bus: frames a BusReader has not received yet
    accepted,       \* number of connections accepted so far
    hpc,            \* position of handle_connection for a connection
    read_result,    \* history: result of a connection's read_until
    client_key,     \* history: the bytes read_until put in client_key
    published,      \* history: frames try_broadcast accepted, in order
    recvd,          \* history: frames recv returned to a connection
    sock,           \* history: byte slices written to a connection's socket
    subAt,          \* history: Len(published) when add_rx was called
    dropped,        \* history: frames try_broadcast refused
    last,           \* history: what the listener did with the latest event of the batch
    last_grab,      \* history: OS call made on the way to the pending fetch
    fail_pending,   \* history: a grab/ungrab failed, no escape release since
    esc_odd,        \* history: odd number of escape releases taken from the batch
    pause_odd,      \* history: odd number of pause releases taken from the batch
    led_err,        \* history: a send_events call failed on the way to the fetch
    pausing,        \* history: the latest pause-key event turned pause_target on
    pub_events      \* history: the events whose frames try_broadcast accepted

vars == <<api_key, lpc, grabbed, grab_target, pause, pause_target,
          event_buffer, batch, clock, lock, rx, queue, accepted,
          hpc, read_result, client_key, published, recvd, sock,
          subAt, dropped, last, last_grab, fail_pending, esc_odd, pause_odd,
          led_err, pausing, pub_events>>

listenerVars == <<grabbed, grab_target, pause, pause_target, event_buffer,
                  batch, clock, last, last_grab, fail_pending, esc_odd,
                  pause_odd, led_err, pausing>>
listenerCtl == <<grabbed, grab_target, pause, pause_target>>
busVars == <<rx, queue, published, dropped, subAt, pub_events>>
mainVars == <<accepted>>
connVars == <<hpc, read_result, client_key, recvd, sock>>

(***************************************************************************)
(* Event bus (crate bus, Bus<([u8; 64], usize)>): one bounded queue of     *)
(* unread frames per reader.                                               *)
(***************************************************************************)
\* Bus::rx_count
RxCount == Cardinality({c \in Conns : rx[c] = "open"})

\* try_broadcast fails when a reader still has BusCapacity unread frames
BusFull == \E c \in Conns : rx[c] = "open" /\ Len(queue[c]) >= BusCapacity

\* variant: only the first active reader gets the frame
BroadcastToFirst(q, f) ==
    [c \in Conns |->
        IF rx[c] = "open" /\ \A d \in 1..(c - 1) : rx[d] # "open"
        THEN Append(q[c], f) ELSE q[c]]

\* try_broadcast, when it succeeds: every active reader gets the frame
Broadcast(q, f) ==
    [c \in Conns |-> IF rx[c] = "open" THEN Append(q[c], f) ELSE q[c]]

\* variant: the new reader starts at the oldest frame
AddRxReplay(q, c) == [q EXCEPT ![c] = published]

\* Bus::add_rx: the new reader starts at the tail, nothing to read
AddRx(q, c) == [q EXCEPT ![c] = <<>>]

\* BusReader::recv blocks until a frame is unread
CanRecv(c) == rx[c] = "open" /\ Len(queue[c]) > 0

\* drop of a BusReader: the reader leaves, its unread frames are released
DropRx(r, c) == [r EXCEPT ![c] = "closed"]

(***************************************************************************)
(* Initial state: the locals of device_listener before its loop, the bus   *)
(* of main, no connection yet.                                             *)
(***************************************************************************)
ConfiguredKey == <<1, 2>>

InitRest ==
    /\ lpc = "top"
    /\ grabbed = FALSE
    /\ grab_target = TRUE
    /\ pause = TRUE
    /\ pause_target = FALSE
    /\ event_buffer = [i \in 1..BufferSize |-> 0]
    /\ batch = <<>>
    /\ clock = 0
    /\ lock = "free"
    /\ rx = [c \in Conns |-> "none"]
    /\ queue = [c \in Conns |-> <<>>]
    /\ accepted = 0
    /\ hpc = [c \in Conns |-> "none"]
    /\ read_result = [c \in Conns |-> "none"]
    /\ client_key = [c \in Conns |-> <<>>]
    /\ published = <<>>
    /\ recvd = [c \in Conns |-> <<>>]
    /\ sock = [c \in Conns |-> <<>>]
    /\ subAt = [c \in Conns |-> 0]
    /\ dropped = {}
    /\ last = "none"
    /\ last_grab = "none"
    /\ fail_pending = FALSE
    /\ esc_odd = FALSE
    /\ pause_odd = FALSE
    /\ led_err = FALSE
    /\ pausing = FALSE
    /\ pub_events = <<>>

Init == api_key = ConfiguredKey /\ InitRest

(***************************************************************************)
(* device_listener.                                                        *)
(***************************************************************************)
\* variant: a failed call leaves grab_target alone
TargetKept(target) == target
\* grab_target after keyboard.grab() / keyboard.ungrab() failed
TargetAfterFailure(target) == ~target

\* Top of the loop: drive grabbed to grab_target with keyboard.grab() /
\* keyboard.ungrab(), which the OS may refuse, then drive pause to
\* pause_target.  After a successful call and after a flip of pause an LED
\* event is written with send_events; its result is only logged.
ListenerControl ==
    /\ lpc = "top"
    /\ lpc' = "fetch"
    /\ \E scroll_ok \in BOOLEAN, caps_ok \in BOOLEAN :
       /\ IF grabbed = grab_target
          THEN /\ last_grab' = "none"
               /\ scroll_ok
               /\ UNCHANGED <<grabbed, grab_target, fail_pending>>
          ELSE \E ok \in BOOLEAN :
               IF ok
               THEN /\ grabbed' = grab_target
                    /\ last_grab' =
                          IF grab_target THEN "grab_ok" ELSE "ungrab_ok"
                    /\ UNCHANGED <<grab_target, fail_pending>>
               ELSE /\ grab_target' = TargetAfterFailure(grab_target)
                    /\ last_grab' =
                          IF grab_target THEN "grab_err" ELSE "ungrab_err"
                    /\ fail_pending' = TRUE
                    /\ scroll_ok
                    /\ UNCHANGED grabbed
       /\ IF pause # pause_target
          THEN pause' = ~pause
          ELSE caps_ok /\ pause' = pause
       /\ led_err' = (~scroll_ok \/ ~caps_ok)
    /\ last' = "none"
    /\ esc_odd' = FALSE
    /\ pause_odd' = FALSE
    /\ UNCHANGED <<api_key, pause_target, pausing, event_buffer, batch, clock,
                   lock>>
    /\ UNCHANGED <<busVars, mainVars, connVars>>

\* keyboard.fetch_events() returned Err: log, next iteration
ListenerFetchErr ==
    /\ lpc = "fetch"
    /\ lpc' = "top"
    /\ last_grab' = "none"
    /\ led_err' = FALSE
    /\ UNCHANGED <<api_key, listenerCtl, event_buffer, batch, clock, last,
                   fail_pending, esc_odd, pause_odd, pausing, lock>>
    /\ UNCHANGED <<busVars, mainVars, connVars>>

\* keyboard.fetch_events() returned Ok(events), and the listener got the
\* bus: let mut transmitter = event_bus.lock().unwrap();
ListenerFetchOk ==
    /\ lpc = "fetch"
    /\ lock = "free"
    /\ \E n \in 1..MaxBatch : \E kinds \in [1..n -> EventKinds] :
          /\ clock + n <= MaxEvents
          /\ batch' = [i \in 1..n |-> InputEvent(kinds[i], clock + i)]
          /\ clock' = clock + n
    /\ lock' = "listener"
    /\ lpc' = "events"
    /\ last_grab' = "none"
    /\ led_err' = FALSE
    /\ UNCHANGED <<api_key, listenerCtl, event_buffer, last, fail_pending,
                   esc_odd, pause_odd, pausing>>
    /\ UNCHANGED <<busVars, mainVars, connVars>>

IsLed(e) == e.type = EV_LED
\* variant: the code alone decides, whatever the event type
IsEscapeAnyType(e) == e.code = escape_code
IsEscape(e) == e.type = EV_KEY /\ e.code = escape_code
\* variant: only releases of the pause key are absorbed
IsPauseReleaseOnly(e) ==
    e.type = EV_KEY /\ e.code = pause_code /\ e.value = 0
IsPause(e) == e.type = EV_KEY /\ e.code = pause_code
\* variant: the press, not the release, toggles
EscapeToggleOnPress(target, e) == IF e.value = 1 THEN ~target ELSE target
\* grab_target ^= event.value() == 0
EscapeToggle(target, e) == IF e.value = 0 THEN ~target ELSE target
\* if event.value() == 0 { pause_target ^= true; }
PauseToggle(target, e) == IF e.value = 0 THEN ~target ELSE target
\* variant: the pause flag is not consulted
TransmittingIgnoringPause == RxCount >= 1
\* variant: the number of readers is not consulted
TransmittingWithoutRx == ~pause
\* if !pause && transmitter.rx_count() >= 1
Transmitting == ~pause /\ RxCount >= 1
\* variant: a refused event stays at the head of the batch and is retried
KeepRefused(b) == b
\* the events left to process after one whose broadcast was refused
AfterRefused(b) == Tail(b)

\* variant: the guard is dropped after every event
LockPerEvent(b) == "free"
\* the MutexGuard `transmitter` lives until the batch is finished
LockAfter(b) == IF b = <<>> THEN "free" ELSE "listener"

\* one pass of `for event in events`; the guard is released after the last
ListenerEvent ==
    /\ lpc = "events"
    /\ batch # <<>>
    /\ LET e == Head(batch)
           enc == ToSliceCobs(e, event_buffer)
           frame == [buf |-> enc.buf, len |-> enc.len]
       IN  IF IsLed(e)
           THEN /\ last' = "led"
                /\ batch' = Tail(batch)
                /\ UNCHANGED <<grab_target, pause_target, fail_pending,
                               esc_odd, pause_odd,
                               event_buffer, queue, published, pub_events,
                               dropped>>
           ELSE IF IsEscape(e)
           THEN /\ grab_target' = EscapeToggle(grab_target, e)
                /\ fail_pending' = IF e.value = 0 THEN FALSE ELSE fail_pending
                /\ esc_odd' = IF e.value = 0 THEN ~esc_odd ELSE esc_odd
                /\ last' = "escape"
                /\ batch' = Tail(batch)
                /\ UNCHANGED <<pause_target, pause_odd, event_buffer, queue,
                               published, pub_events, dropped>>
           ELSE IF IsPause(e)
           THEN /\ pause_target' = PauseToggle(pause_target, e)
                /\ pause_odd' = IF e.value = 0 THEN ~pause_odd ELSE pause_odd
                /\ last' = "pause"
                /\ batch' = Tail(batch)
                /\ UNCHANGED <<grab_target, fail_pending, esc_odd,
                               event_buffer, queue, published, pub_events,
                               dropped>>
           ELSE IF ~Transmitting
           THEN /\ last' = IF pause THEN "paused" ELSE "no_rx"
                /\ batch' = Tail(batch)
                /\ UNCHANGED <<grab_target, pause_target, fail_pending,
                               esc_odd, pause_odd,
                               event_buffer, queue, published, pub_events,
                               dropped>>
           ELSE IF ~enc.ok
           THEN /\ last' = "encode_err"
                /\ batch' = Tail(batch)
                /\ UNCHANGED <<grab_target, pause_target, fail_pending,
                               esc_odd, pause_odd,
                               event_buffer, queue, published, pub_events,
                               dropped>>
           ELSE IF BusFull
           THEN /\ event_buffer' = enc.buf
                /\ dropped' = dropped \cup {frame}
                /\ last' = "full"
                /\ batch' = AfterRefused(batch)
                /\ UNCHANGED <<grab_target, pause_target, fail_pending,
                               esc_odd, pause_odd, queue, published,
                               pub_events>>
           ELSE /\ event_buffer' = enc.buf
                /\ queue' = Broadcast(queue, frame)
                /\ published' = Append(published, frame)
                /\ pub_events' = Append(pub_events, e)
                /\ last' = "sent"
                /\ batch' = Tail(batch)
                /\ UNCHANGED <<grab_target, pause_target, fail_pending,
                               esc_odd, pause_odd, dropped>>
    /\ pausing' = IF IsPause(Head(batch))
                  THEN pause_target' /\ ~pause_target
                  ELSE pausing
    /\ lock' = LockAfter(batch')
    /\ lpc' = IF batch' = <<>> THEN "top" ELSE "events"
    /\ UNCHANGED <<api_key, grabbed, pause, clock, last_grab, led_err, rx,
                   subAt>>
    /\ UNCHANGED <<mainVars, connVars>>

(***************************************************************************)
(* main: the accept loop, and the worker pool it hands connections to.     *)
(***************************************************************************)
\* for stream_result in tcp_listener.incoming() { Ok(stream) => {
\*   let receiver = (*event_bus.lock().unwrap()).add_rx();
\*   tcp_pool.execute(move || { handle_connection(stream, &api_key, receiver) })
\* The pool has more workers than the model has connections, so the closure
\* starts at once: the handler stands at its read_until.
MainAccept ==
    /\ accepted < MaxConns
    /\ lock = "free"
    /\ LET c == accepted + 1
       IN  /\ accepted' = c
           /\ rx' = [rx EXCEPT ![c] = "open"]
           /\ queue' = AddRx(queue, c)
           /\ subAt' = [subAt EXCEPT ![c] = Len(published)]
           /\ hpc' = [hpc EXCEPT ![c] = "read"]
    /\ UNCHANGED <<api_key, lpc, listenerVars, lock, published, dropped,
                   pub_events, read_result, client_key, recvd, sock>>

(***************************************************************************)
(* handle_connection.                                                      *)
(***************************************************************************)
\* variant: the credential must be the key and its terminator, nothing more
StartsWithExact(cand, key) == cand = Append(key, 0)

\* <[u8]>::starts_with
StartsWith(cand, key) ==
    /\ Len(key) <= Len(cand)
    /\ \A i \in 1..Len(key) : cand[i] = key[i]

\* byte strings without 0x00, up to n bytes
RECURSIVE NonZeroSeqs(_)
NonZeroSeqs(n) ==
    IF n = 0 THEN {<<>>}
    ELSE LET shorter == NonZeroSeqs(n - 1)
         IN  shorter \cup {Append(s, b) : s \in shorter, b \in {1, 2}}

\* what read_until(0x00, ..) can return as Ok: the bytes up to and including
\* the first 0x00, or everything up to the end of the stream
AllCredentials ==
    {Append(s, 0) : s \in NonZeroSeqs(MaxCredLen)} \cup NonZeroSeqs(MaxCredLen)

\* the key with its terminator, and a wrong credential
TypicalCredentials == {Append(ConfiguredKey, 0), <<1, 0>>}

\* variant: a refused client's receiver is kept after the handler returned
ReadOutcomeKeepsReceiver(c, res, cand) ==
    /\ hpc[c] = "read"
    /\ IF res = "err"
       THEN /\ hpc' = [hpc EXCEPT ![c] = "recv"]
            /\ UNCHANGED <<rx, queue>>
       ELSE IF ~StartsWith(cand, api_key)
       THEN /\ hpc' = [hpc EXCEPT ![c] = "done"]
            /\ UNCHANGED <<rx, queue>>
       ELSE /\ hpc' = [hpc EXCEPT ![c] = "recv"]
            /\ UNCHANGED <<rx, queue>>
    /\ UNCHANGED <<api_key, lpc, listenerVars, lock, published, dropped,
                   pub_events, subAt, mainVars, recvd, sock>>
\* buffer_reader.read_until(0x00, &mut client_key) and the match on it:
\* res is "err" or "ok", cand the bytes read
ReadOutcome(c, res, cand) ==
    /\ hpc[c] = "read"
    /\ IF res = "err"
       THEN /\ hpc' = [hpc EXCEPT ![c] = "recv"]
            /\ UNCHANGED <<rx, queue>>
       ELSE IF ~StartsWith(cand, api_key)
       THEN /\ hpc' = [hpc EXCEPT ![c] = "done"]
            /\ rx' = DropRx(rx, c)
            /\ queue' = [queue EXCEPT ![c] = <<>>]
       ELSE /\ hpc' = [hpc EXCEPT ![c] = "recv"]
            /\ UNCHANGED <<rx, queue>>
    /\ UNCHANGED <<api_key, lpc, listenerVars, lock, published, dropped,
                   pub_events, subAt, mainVars, recvd, sock>>

\* the handler's first step, for a client that sends the key or a wrong one
HandlerRead(c) ==
    /\ \E res \in {"err", "ok"}, cand \in TypicalCredentials :
          ReadOutcome(c, res, cand)
    /\ UNCHANGED <<read_result, client_key>>

\* the handler's first step for any credential, with the outcome recorded
\* (a failed read is recorded with no bytes)
HandlerReadLogged(c) ==
    \E res \in {"err", "ok"}, cand \in AllCredentials :
       /\ res = "err" => cand = <<>>
       /\ ReadOutcome(c, res, cand)
       /\ read_result' = [read_result EXCEPT ![c] = res]
       /\ client_key' = [client_key EXCEPT ![c] = cand]

\* one pass of the loop: receiver.recv(), then stream.write of the slice
HandlerRecv(c) ==
    /\ hpc[c] = "recv"
    /\ CanRecv(c)
    /\ LET f == Head(queue[c])
       IN  /\ recvd' = [recvd EXCEPT ![c] = Append(@, f)]
           /\ \E written \in BOOLEAN :
              IF written
              THEN /\ sock' = [sock EXCEPT ![c] = Append(@, FrameSlice(f))]
                   /\ queue' = [queue EXCEPT ![c] = Tail(@)]
                   /\ UNCHANGED <<hpc, rx>>
              ELSE /\ hpc' = [hpc EXCEPT ![c] = "done"]
                   /\ rx' = DropRx(rx, c)
                   /\ queue' = [queue EXCEPT ![c] = <<>>]
                   /\ UNCHANGED sock
    /\ UNCHANGED <<api_key, lpc, listenerVars, lock, published, dropped,
                   pub_events, subAt, mainVars, read_result, client_key>>

(***************************************************************************)
(* The program.                                                            *)
(***************************************************************************)
Next ==
    \/ ListenerControl
    \/ ListenerFetchErr
    \/ ListenerFetchOk
    \/ ListenerEvent
    \/ MainAccept
    \/ \E c \in Conns : HandlerRead(c)
    \/ \E c \in Conns : HandlerRecv(c)

Spec == Init /\ [][Next]_vars

(***************************************************************************)
(* Connection set-up and authentication alone, for every configured key    *)
(* and every credential.                                                   *)
(***************************************************************************)
\* the configured keys tried: n bytes 0x01; credentials range over two byte
\* values, so they can match, extend, cut short or differ from the key
Keys == {[i \in 1..n |-> 1] : n \in 0..MaxKeyLen}

InitAuth == api_key \in Keys /\ InitRest

NextAuth ==
    \/ MainAccept
    \/ \E c \in Conns : HandlerReadLogged(c)

SpecAuth == InitAuth /\ [][NextAuth]_vars

\* The listener is a thread of its own: once it is past the device fetch it
\* keeps running, so its loop head and its per-event step are weakly fair.
\* The device, the clients and the handlers' socket writes are not: a device
\* may stay silent and a client may stall for ever.
ListenerFairness ==
    /\ WF_vars(ListenerControl)
    /\ WF_vars(ListenerEvent)

SpecLive == Init /\ [][Next]_vars /\ ListenerFairness

(***************************************************************************)
(* Properties.                                                             *)
(***************************************************************************)
Range(q) == {q[i] : i \in 1..Len(q)}

\* k is a byte-prefix of c
IsPrefixOf(k, c) == \E n \in 0..Len(c) : SubSeq(c, 1, n) = k

\* an event that is neither an LED event nor an escape/pause key event
IsPayload(e) ==
    /\ e.type # EV_LED
    /\ ~(e.type = EV_KEY /\ e.code \in {escape_code, pause_code})

\* the listener takes the next event of its batch in this step
ListenerStep == lpc = "events" /\ batch' # batch

\* C1: a connection whose credential read failed, or whose credential does
\* not start with the key, has returned: it is not in the recv loop, has
\* received no frame and has written nothing to its socket.
C1_NoFramesWithoutAuth ==
    \A c \in Conns :
        (\/ read_result[c] = "err"
         \/ read_result[c] = "ok" /\ ~IsPrefixOf(api_key, client_key[c]))
        => hpc[c] = "done" /\ recvd[c] = <<>> /\ sock[c] = <<>>

\* C2: after a successful read the handler goes on to stream exactly when
\* the key is a byte-prefix of the credential: the key with its terminator
\* and any extension of the key pass; a proper prefix of the key and a
\* credential that differs from the key at one of its positions are refused.
C2_AuthIffKeyIsPrefix ==
    \A c \in Conns : read_result[c] = "ok" =>
        LET cand == client_key[c]
            differs == \E i \in 1..Len(api_key) :
                          i <= Len(cand) /\ cand[i] # api_key[i]
        IN  /\ hpc[c] \in {"recv", "done"}
            /\ hpc[c] = "recv" <=> IsPrefixOf(api_key, cand)
            /\ cand = api_key \o <<0>> => hpc[c] = "recv"
            /\ (/\ Len(cand) > Len(api_key)
                /\ SubSeq(cand, 1, Len(api_key)) = api_key) => hpc[c] = "recv"
            /\ Len(cand) < Len(api_key) => hpc[c] = "done"
            /\ differs => hpc[c] = "done"

\* C2 witness: one client passed with a credential that extends a non-empty
\* key beyond its terminator position, another was refused with a proper
\* prefix of the key.
C2_Witness ==
    /\ api_key # <<>>
    /\ \E c, d \in Conns :
          /\ read_result[c] = "ok" /\ hpc[c] = "recv"
          /\ Len(client_key[c]) > Len(api_key) + 1
          /\ read_result[d] = "ok" /\ hpc[d] = "done"
          /\ Len(client_key[d]) < Len(api_key)
          /\ IsPrefixOf(client_key[d], api_key)

\* C3: while pause is true no step encodes an event, publishes a frame,
\* offers one to the bus or lengthens any reader's queue.
C3_PauseSuppressesForwarding ==
    [][pause => /\ event_buffer' = event_buffer
                /\ published' = published
                /\ dropped' = dropped
                /\ \A c \in Conns : Len(queue'[c]) <= Len(queue[c])]_vars

\* C3 witness: the listener discarded an event while paused although a
\* reader was attached.
C3_Witness ==
    pause /\ last = "paused" /\ \E c \in Conns : rx[c] = "open"

\* C4: no frame that was published, offered to the bus, queued for a reader
\* or written to a socket is the encoding of an escape or pause key event,
\* whatever its value and timestamp.
ControlEncodings ==
    {Encoding([timestamp |-> t, type |-> EV_KEY, code |-> k, value |-> v]) :
        t \in 1..MaxEvents, k \in {escape_code, pause_code}, v \in {0, 1, 2}}

C4_ControlKeysAbsorbed ==
    /\ \A f \in Range(published) \cup dropped :
          FrameSlice(f) \notin ControlEncodings
    /\ \A c \in Conns :
          /\ \A f \in Range(queue[c]) \cup Range(recvd[c]) :
                FrameSlice(f) \notin ControlEncodings
          /\ \A b \in Range(sock[c]) : b \notin ControlEncodings

\* C4 witness: a control key arrived while the listener was forwarding
\* (unpaused, a reader attached, device grabbed).
C4_Witness ==
    /\ last \in {"escape", "pause"}
    /\ ~pause /\ grabbed
    /\ \E c \in Conns : rx[c] = "open"

\* C5: what a reader has received, followed by what it has not read yet, is
\* exactly the sequence of frames published since its add_rx; a reader that
\* has left received a prefix of that sequence.
SinceAddRx(c) == SubSeq(published, subAt[c] + 1, Len(published))

C6_AllOrNothingDrop ==
    /\ [][(/\ ListenerStep
           /\ IsPayload(Head(batch))
           /\ ~pause
           /\ \E c \in Conns :
                 rx[c] = "open" /\ Len(queue[c]) >= BusCapacity)
          => (/\ queue' = queue
              /\ published' = published
              /\ batch' = Tail(batch))]_vars
    /\ [](\A f \in dropped :
             /\ f \notin Range(published)
             /\ \A c \in Conns : f \notin Range(queue[c]) \cup Range(recvd[c]))

\* C6 witness: a frame was refused while one reader was at capacity and a
\* sibling had room; the sibling did not get it.
C6_Witness ==
    /\ last = "full"
    /\ \E c, d \in Conns :
          /\ rx[c] = "open" /\ Len(queue[c]) >= BusCapacity
          /\ rx[d] = "open" /\ Len(queue[d]) < BusCapacity

\* C7: a reader that is in its recv loop and has room gets the frame of
\* every event the listener forwards, whatever the other connections do.
C7_StalledClientHarmless ==
    [][(ListenerStep /\ IsPayload(Head(batch)) /\ ~pause)
       => \A c \in Conns :
             (rx[c] = "open" /\ hpc[c] = "recv" /\ Len(queue[c]) < BusCapacity)
             => Len(queue'[c]) = Len(queue[c]) + 1]_vars

\* C8: a reader's queue is empty when add_rx returns, and no frame published
\* before its add_rx is ever queued for it or received by it.
C8_NothingFromBeforeAddRx ==
    /\ [][\A c \in Conns :
             (rx[c] = "none" /\ rx'[c] = "open") => queue'[c] = <<>>]_vars
    /\ [](\A c \in Conns : \A i \in 1..subAt[c] :
             published[i] \notin Range(queue[c]) \cup Range(recvd[c]))

\* C8 witness: a reader added after a publish has received a later frame.
C8_Witness ==
    \E c \in Conns : subAt[c] >= 1 /\ Len(recvd[c]) >= 1

\* C9: while no reader is attached, no step of the listener's batch touches
\* event_buffer or the bus.
C9_NoWorkWithoutReaders ==
    [][(lpc = "events" /\ \A c \in Conns : rx[c] # "open")
       => /\ event_buffer' = event_buffer
          /\ published' = published
          /\ dropped' = dropped
          /\ queue' = queue
          /\ rx' = rx]_vars

\* C9 witness: the listener, unpaused, discarded an event because every
\* reader that had been attached was gone.
C9_Witness ==
    /\ last = "no_rx"
    /\ ~pause
    /\ \E c \in Conns : rx[c] = "closed"
    /\ \A c \in Conns : rx[c] # "open"

\* C10: right after a failed grab both grabbed and grab_target are false,
\* right after a failed ungrab both are true, and from a failure until the
\* next escape release every iteration starts with grabbed = grab_target,
\* so it makes no OS call.
C10_NoGrabRetry ==
    /\ (lpc = "fetch" /\ last_grab = "grab_err") => (~grabbed /\ ~grab_target)
    /\ (lpc = "fetch" /\ last_grab = "ungrab_err") => (grabbed /\ grab_target)
    /\ (lpc = "top" /\ fail_pending) => grabbed = grab_target
    /\ (lpc = "fetch" /\ fail_pending) =>
          last_grab \in {"none", "grab_err", "ungrab_err"}

\* C10 witness: an ungrab failed, and a later iteration reached its fetch
\* without an OS call.
C10_Witness ==
    /\ fail_pending /\ grabbed /\ grab_target
    /\ lpc = "fetch" /\ last_grab = "none"

\* the frames c was offered: those it took out followed by those waiting
Offered(c) == recvd[c] \o queue[c]

\* C11: while the listener is unpaused, a subscriber is attached and the bus
\* has room, an event that is neither an LED event nor an escape / pause key
\* event publishes exactly one frame, the encoding of that event, to every
\* subscriber, and any other event publishes nothing; an attached subscriber
\* is offered exactly the frames published since it subscribed, one per
\* published event, in device order.
C11_CompleteExactForwarding ==
    /\ [](/\ Len(pub_events) = Len(published)
          /\ \A i \in 1..Len(published) :
                FrameSlice(published[i]) = Encoding(pub_events[i])
          /\ \A i \in 1..Len(pub_events), j \in 1..Len(pub_events) :
                i < j => pub_events[i].timestamp < pub_events[j].timestamp
          /\ \A c \in Conns : rx[c] = "open" => Offered(c) = SinceAddRx(c))
    /\ [][(ListenerStep /\ ~pause /\ RxCount >= 1 /\ ~BusFull) =>
            LET e == Head(batch)
            IN  IF IsPayload(e)
                THEN /\ pub_events' = Append(pub_events, e)
                     /\ Len(published') = Len(published) + 1
                     /\ \A c \in Conns :
                           rx[c] = "open" =>
                              queue'[c] = Append(queue[c],
                                            published'[Len(published')])
                ELSE /\ published' = published
                     /\ queue' = queue]_vars

\* a subscriber has taken two frames off the bus, the first of them for an
\* event that is not a key event but carries the escape key's code
C11_Witness ==
    \E c \in Conns :
       /\ Len(recvd[c]) = 2
       /\ Len(pub_events) = 2
       /\ pub_events[1].type # EV_KEY
       /\ pub_events[1].code = escape_code
       /\ subAt[c] = 0

\* C12: wherever the listener stands, it reaches its next device fetch:
\* no outcome of a fetch, a grab / ungrab, an LED write, an encode or a
\* publish keeps it from getting there, and no subscriber has to take a
\* frame off the bus for it to get there.
C12_ListenerProgress == []<>(lpc = "fetch")

\* the listener is back at the fetch after a publish was refused, while the
\* subscriber that made the bus full still has not taken a frame
C12_Witness ==
    /\ lpc = "fetch"
    /\ dropped # {}
    /\ \E c \in Conns : rx[c] = "open" /\ Len(queue[c]) = BusCapacity

\* C13: once a pause-key event has turned pause_target on, every event that
\* is neither an LED event nor a control-key event is discarded until the
\* next pause-key event: taking it publishes no frame and lengthens no
\* queue, also when it comes in the same batch as that pause-key event.
C13_DiscardUntilPauseKeyAgain ==
    [][(ListenerStep /\ pausing /\ IsPayload(Head(batch))) =>
          /\ published' = published
          /\ queue' = queue]_vars

\* C14: the bus has an active subscription only for a connection whose
\* credential was read and starts with the key; a connection that is still
\* sending its credential, or whose credential was refused, has none.
C14_SubscriptionOnlyAfterAuth ==
    \A c \in Conns :
        rx[c] = "open" =>
            read_result[c] = "ok" /\ IsPrefixOf(api_key, client_key[c])

\* exclusive or
Xor(a, b) == a # b

\* C15: taking an event flips grab_target exactly when the event is a
\* release (value 0) of the escape key and pause_target exactly when it is
\* a release of the pause key; presses, repeats and all other events leave
\* both alone.  A batch starts with each target equal to its actual flag,
\* so within and after a batch each target is that value XOR the parity of
\* the key's releases taken from the batch, and after a batch with an even
\* number of escape releases the loop head calls neither grab nor ungrab.
C15_TargetsToggleOnRelease ==
    /\ [][ListenerStep =>
            LET e == Head(batch)
                key(code) == e.type = EV_KEY /\ e.code = code
            IN  /\ grab_target' =
                      Xor(grab_target, key(escape_code) /\ e.value = 0)
                /\ pause_target' =
                      Xor(pause_target, key(pause_code) /\ e.value = 0)
                /\ esc_odd' = Xor(esc_odd, key(escape_code) /\ e.value = 0)
                /\ pause_odd' = Xor(pause_odd, key(pause_code) /\ e.value = 0)
                /\ grabbed' = grabbed /\ pause' = pause]_vars
    /\ [][(lpc = "fetch" /\ lpc' = "events") =>
            /\ grab_target' = grabbed' /\ ~esc_odd'
            /\ pause_target' = pause' /\ ~pause_odd']_vars
    /\ [](lpc = "events" \/ (lpc = "top" /\ last # "none") =>
            /\ grab_target = Xor(grabbed, esc_odd)
            /\ pause_target = Xor(pause, pause_odd))
    /\ [][(lpc = "top" /\ last # "none" /\ ~esc_odd /\ lpc' = "fetch") =>
            last_grab' = "none" /\ grabbed' = grabbed]_vars

\* one escape release of the batch has been taken, grab_target differs from
\* grabbed, and the event that ends the batch is a second escape release
C15_Witness ==
    /\ lpc = "events"
    /\ esc_odd
    /\ grab_target # grabbed
    /\ Len(batch) = 1
    /\ IsEscape(Head(batch))
    /\ Head(batch).value = 0

\* C16: whenever the listener stands at the device fetch, the first time
\* included, grabbed equals grab_target and pause equals pause_target,
\* whatever the grab / ungrab call and the LED writes before it returned.
C16_ActualEqualsTargetAtFetch ==
    lpc = "fetch" => grabbed = grab_target /\ pause = pause_target

\* the listener stands at the fetch after the OS refused the grab and the
\* LED write that follows the flip of pause failed
C16_Witness ==
    /\ lpc = "fetch"
    /\ last_grab = "grab_err"
    /\ led_err
    /\ ~grabbed

C18_AddRxOutsideBatch ==
    /\ [][accepted' # accepted => lpc # "events" /\ lock = "free"]_vars
    /\ [][lpc = "events" =>
            /\ subAt' = subAt
            /\ \A c \in Conns : rx[c] = "none" => rx'[c] = "none"]_vars
    /\ [](lpc = "fetch" => lock = "free")
    /\ []((lpc = "fetch" /\ accepted < MaxConns) => ENABLED MainAccept)

\* a second subscription was added between two batches, after the first
\* frame was published, and has been offered the frame of the later batch
C18_Witness ==
    /\ accepted = 2
    /\ rx[2] = "open"
    /\ subAt[2] = 1
    /\ Len(published) = 2
    /\ Offered(2) = <<published[2]>>
    /\ lpc = "fetch"

\* C19: a handler that has returned has no subscription, and a closed
\* subscription never makes a publish fail: an event that is to be
\* forwarded is published whenever every subscription that is still open
\* has room, whatever the departed ones had left unread.
C19_ReturnReleasesSubscription ==
    /\ [](\A c \in Conns :
             /\ hpc[c] = "done" <=> rx[c] = "closed"
             /\ rx[c] = "closed" => queue[c] = <<>>)
    /\ [][(/\ ListenerStep
           /\ IsPayload(Head(batch))
           /\ ~pause
           /\ \E c \in Conns : rx[c] = "open"
           /\ \A c \in Conns :
                 rx[c] = "open" => Len(queue[c]) < BusCapacity)
          => /\ Len(published') = Len(published) + 1
             /\ dropped' = dropped]_vars

\* a subscription that was there from the first publish on and never took a
\* frame is closed, and more frames than it had room for have been
\* published, the last of them to a subscription that is still open
C19_Witness ==
    \E a, b \in Conns :
       /\ rx[a] = "closed"
       /\ subAt[a] = 0
       /\ recvd[a] = <<>>
       /\ Len(published) > BusCapacity
       /\ rx[b] = "open"
       /\ Offered(b) # <<>>
       /\ Offered(b)[Len(Offered(b))] = published[Len(published)]

====
